---- MODULE Spec2Model ----
(***************************************************************************)
(* The game-state engine of car_game_enhanced.py: one iteration of the     *)
(* main loop (camera sampling, scroll offset, game logic, particles) is    *)
(* one step of the state machine.                                          *)
(*                                                                         *)
(* Floats are held as scaled integers.  Obstacle top-y, obstacle speed and *)
(* the dash offset are multiples of 0.1 px in the program (speeds are      *)
(* multiples of 0.5, the scroll step is speed*0.6); they are counted in    *)
(* units of 1/PX px.  The player x is a double whose arithmetic rounds; it *)
(* is held exactly, counted in units of 2^-47 px in two limbs, and lerp    *)
(* rounds to the 53-bit mantissa (round-half-even) as the float            *)
(* subtraction and addition do.                                            *)
(* Rendering, the palette/colour of an obstacle and the position, velocity *)
(* and size of a particle take no part in the game logic and are left out. *)
(***************************************************************************)
EXTENDS Integers, Sequences, FiniteSets, TLC

\* ---- Layout (src lines 32-47) ------------------------------------------
WIN_W == 800
WIN_H == 600
ROAD_L == 80
ROAD_R == 720
ROAD_W == ROAD_R - ROAD_L
LANE_COUNT == 3
LANE_W == ROAD_W \div LANE_COUNT
LANE_X(i) == ROAD_L + LANE_W * i + LANE_W \div 2
CAR_W == 52
CAR_H == 84
ENEMY_W == 52
ENEMY_H == 84
FPS == 60
DASH_LEN == 40
DASH_GAP == 30
MAX_ENEMIES == 12
MAX_SPEED == 18
CAM_SKIP == 2

\* ---- Number representation ---------------------------------------------
PX == 10
None == << >>
Some(x) == << x >>

\* int(): truncation toward zero of a value counted in 1/unit
Trunc(v, unit) == IF v >= 0 THEN v \div unit ELSE -((-v) \div unit)

\* A non-negative double below 1024 px, counted in units of 2^-47 px:
\* value = hi * LIMB + lo with 0 <= lo < LIMB (LIMB = 2^28); one pixel is
\* PX_HI * LIMB units (PX_HI = 2^19).
LIMB == 268435456
PX_HI == 524288
Float(px) == [hi |-> px * PX_HI, lo |-> 0]
FNorm(hi, lo) == [hi |-> hi + lo \div LIMB, lo |-> lo % LIMB]
FLess(a, b) == a.hi < b.hi \/ (a.hi = b.hi /\ a.lo < b.lo)
FAdd(a, b) == FNorm(a.hi + b.hi, a.lo + b.lo)
\* a - b for a >= b
FSub(a, b) == FNorm(a.hi - b.hi, a.lo - b.lo)
\* a * 0.25 (exact: a power of two)
FQuarter(a) == [hi |-> a.hi \div 4, lo |-> ((a.hi % 4) * LIMB + a.lo) \div 4]
\* int(): the whole pixels
FInt(a) == a.hi \div PX_HI

\* the spacing of the doubles around v (53-bit mantissa), in units
FUlp(v) ==
  IF v.hi >= 512 * PX_HI THEN 16
  ELSE IF v.hi >= 256 * PX_HI THEN 8
  ELSE IF v.hi >= 128 * PX_HI THEN 4
  ELSE IF v.hi >= 64 * PX_HI THEN 2
  ELSE 1

\* the exact result v of one float operation, rounded to the nearest
\* double, ties to even
FRound(v) ==
  LET g == FUlp(v)
      r == v.lo % g
      q == v.lo - r
      up == 2 * r > g \/ (2 * r = g /\ (q \div g) % 2 = 1)
  IN  FNorm(v.hi, IF up THEN q + g ELSE q)

Max(a, b) == IF a >= b THEN a ELSE b
Min(a, b) == IF a <= b THEN a ELSE b

\* ---- Helpers (src lines 59-73) -----------------------------------------
\* lerp with t = 0.5
lerp_half(a, b) ==
  IF FLess(a, b)
  THEN FRound(FAdd(a, FQuarter(FRound(FAdd(FSub(b, a), FSub(b, a))))))
  ELSE FRound(FSub(a, FQuarter(FRound(FAdd(FSub(a, b), FSub(a, b))))))

\* lerp(a, b, 0.25) = a + (b - a) * 0.25, the only t the program passes:
\* the subtraction rounds, the product by 0.25 is exact, the addition rounds
lerp(a, b) ==
  IF FLess(a, b)
  THEN FRound(FAdd(a, FQuarter(FRound(FSub(b, a)))))
  ELSE FRound(FSub(a, FQuarter(FRound(FSub(a, b)))))

\* hand_lane with the thirds' boundaries put in the lower lane (<= for <)
hand_lane_inclusive(hx, frame_w) ==
  IF hx = None THEN 1
  ELSE IF 3 * hx[1] <= frame_w THEN 0
  ELSE IF 3 * hx[1] <= 2 * frame_w THEN 1
  ELSE 2

\* thirds = frame_w / 3; hand_x < thirds; hand_x < 2 * thirds
\* (for an integer hand_x the float comparisons agree with the exact ones)
hand_lane(hx, frame_w) ==
  IF hx = None THEN 1
  ELSE IF 3 * hx[1] < frame_w THEN 0
  ELSE IF 3 * hx[1] < 2 * frame_w THEN 1
  ELSE 2

\* ---- pygame.Rect / colliderect ----------------------------------------
Rect(x, y, wd, ht) == [x |-> x, y |-> y, w |-> wd, h |-> ht]

colliderect(a, b) ==
  /\ a.x < b.x + b.w
  /\ b.x < a.x + a.w
  /\ a.y < b.y + b.h
  /\ b.y < a.y + a.h

\* ---- Particle system (src lines 127-155) -------------------------------
EXPLODE_COUNT == 40
Particle(life) == [life |-> life, max_life |-> life]

\* Particle.update: life -= 1
ParticleUpdate(p) == [p EXCEPT !.life = @ - 1]

\* explode: 40 particles appended; lifeA/lifeB are the lifetimes drawn by
\* random.randint(25, 50) for the odd and the even particles of the batch
explode(particles, lifeA, lifeB) ==
  particles \o [k \in 1..EXPLODE_COUNT |->
                  Particle(IF k % 2 = 1 THEN lifeA ELSE lifeB)]

\* the prune keeping a particle whose lifetime has just reached 0
StepParticlesKeepsZero(particles) ==
  SelectSeq([k \in 1..Len(particles) |-> ParticleUpdate(particles[k])],
            LAMBDA p : p.life >= 0)

\* for p in particles: p.update(); particles = [p for p if p.life > 0]
StepParticles(particles) ==
  SelectSeq([k \in 1..Len(particles) |-> ParticleUpdate(particles[k])],
            LAMBDA p : p.life > 0)

\* ---- Session state (src lines 219-236) ---------------------------------
reset_state ==
  [ car_lane  |-> 1,
    car_x_px  |-> Float(LANE_X(1) - CAR_W \div 2),
    car_y     |-> WIN_H - CAR_H - 24,
    score     |-> 0,
    lives     |-> 3,
    enemies   |-> << >>,
    enemy_spd |-> 5 * PX,
    spawn_cd  |-> 70,
    game_over |-> FALSE,
    go_timer  |-> 0,
    tick      |-> 0,
    dash_off  |-> 0,
    hand_x    |-> None,
    particles |-> << >> ]

\* ---- One loop iteration, stage by stage (src lines 245-382) ------------

\* the camera stage recomputing hand_x on every frame read
CameraEveryTick(s, ct, ret2, seen) ==
  IF ret2 THEN [s EXCEPT !.hand_x = seen] ELSE s

\* Camera: hand_x is recomputed when cam_tick % CAM_SKIP == 0 and the frame
\* was read (ret2); seen is the detector's result (None or Some(int(lm.x*w)))
Camera(s, ct, ret2, seen) ==
  IF ct % CAM_SKIP = 0 /\ ret2 THEN [s EXCEPT !.hand_x = seen] ELSE s

\* dash_off = (dash_off + enemy_spd * 0.6) % (DASH_LEN + DASH_GAP)
Scroll(s) ==
  [s EXCEPT !.dash_off = (@ + (s.enemy_spd * 6) \div 10) % ((DASH_LEN + DASH_GAP) * PX)]

\* Lane selection and smooth slide (src lines 303-306)
LaneSelect(s, frame_w) ==
  LET target_lane == hand_lane(s.hand_x, frame_w)
      target_x    == Float(LANE_X(target_lane) - CAR_W \div 2)
  IN  [s EXCEPT !.car_lane = target_lane,
                !.car_x_px = lerp(s.car_x_px, target_x)]

car_rect(s) == Rect(FInt(s.car_x_px), s.car_y, CAR_W, CAR_H)

\* the spawn interval shrinking half as fast
base_interval_slow(score) == Max(25, 70 - score \div 10)

\* base_interval = max(25, 70 - s['score'] // 5)
base_interval(score) == Max(25, 70 - score \div 5)

\* the spawn test one tick late (< 0 for <= 0)
SpawnDueLate(cd, n) == cd < 0 /\ n < MAX_ENEMIES

\* if s['spawn_cd'] <= 0 and len(s['enemies']) < MAX_ENEMIES
SpawnDue(cd, n) == cd <= 0 /\ n < MAX_ENEMIES

\* the spawn step with a quarter of the countdown
SpawnRapid(s, lane, jitter) ==
  LET cd == s.spawn_cd - 1
  IN  IF SpawnDue(cd, Len(s.enemies))
      THEN [s EXCEPT !.enemies  = Append(@, [cx |-> LANE_X(lane), y |-> -ENEMY_H * PX]),
                     !.spawn_cd = (base_interval(s.score) + jitter) \div 4]
      ELSE [s EXCEPT !.spawn_cd = cd]

\* Spawn enemies (src lines 311-317); lane and jitter are the random draws
Spawn(s, lane, jitter) ==
  LET cd == s.spawn_cd - 1
  IN  IF SpawnDue(cd, Len(s.enemies))
      THEN [s EXCEPT !.enemies  = Append(@, [cx |-> LANE_X(lane), y |-> -ENEMY_H * PX]),
                     !.spawn_cd = base_interval(s.score) + jitter]
      ELSE [s EXCEPT !.spawn_cd = cd]

enemy_rect(cx, ey) == Rect(cx - ENEMY_W \div 2, Trunc(ey, PX), ENEMY_W, ENEMY_H)

\* the game-over test as lives < 0
OutOfLivesLate(lives) == lives < 0

\* if s['lives'] <= 0
OutOfLives(lives) == lives <= 0

\* a one-second cooldown
RestartCooldownShort == FPS

\* go_timer = FPS * 2: the 2-second cooldown before restart
RestartCooldown == FPS * 2

\* the collision branch also counting the obstacle as passed
CollideAlsoScores(a, i, lifeA, lifeB) ==
  LET lives1 == a.s.lives - 1
      s1 == [a.s EXCEPT !.particles = explode(@, lifeA, lifeB),
                        !.lives = lives1,
                        !.score = @ + 1]
      s2 == IF OutOfLives(lives1)
            THEN [s1 EXCEPT !.game_over = TRUE, !.go_timer = RestartCooldown]
            ELSE s1
  IN  [a EXCEPT !.s = s2,
                !.to_remove = Append(@, i),
                !.exploded = Append(@, i)]

\* Collision branch of the update loop (src lines 328-333)
Collide(a, i, lifeA, lifeB) ==
  LET lives1 == a.s.lives - 1
      s1 == [a.s EXCEPT !.particles = explode(@, lifeA, lifeB),
                        !.lives = lives1]
      s2 == IF OutOfLives(lives1)
            THEN [s1 EXCEPT !.game_over = TRUE, !.go_timer = RestartCooldown]
            ELSE s1
  IN  [a EXCEPT !.s = s2,
                !.to_remove = Append(@, i),
                !.exploded = Append(@, i)]

\* the speed step without its cap
SpeedUpUncapped(score, spd) ==
  IF score % 8 = 0 THEN spd + PX \div 2 ELSE spd

\* the speed step with max for min
SpeedUpMaxForMin(score, spd) ==
  IF score % 8 = 0 THEN Max(MAX_SPEED * PX, spd + PX \div 2) ELSE spd

\* if score % 8 == 0: enemy_spd = min(MAX_SPEED, enemy_spd + 0.5)
SpeedUp(score, spd) ==
  IF score % 8 = 0 THEN Min(MAX_SPEED * PX, spd + PX \div 2) ELSE spd

\* the exit branch scoring the obstacle without marking it for removal
ExitKeepsObstacle(a, i) ==
  LET score1 == a.s.score + 1
  IN  [a EXCEPT !.s = [a.s EXCEPT !.score = score1,
                                  !.enemy_spd = SpeedUp(score1, a.s.enemy_spd)],
                !.exited = Append(@, i)]

\* the exit branch scoring two points
ExitScoresTwice(a, i) ==
  LET score1 == a.s.score + 2
  IN  [a EXCEPT !.s = [a.s EXCEPT !.score = score1,
                                  !.enemy_spd = SpeedUp(score1, a.s.enemy_spd)],
                !.to_remove = Append(@, i),
                !.exited = Append(@, i)]

\* Exit branch of the update loop (src lines 335-339)
Exit(a, i) ==
  LET score1 == a.s.score + 1
  IN  [a EXCEPT !.s = [a.s EXCEPT !.score = score1,
                                  !.enemy_spd = SpeedUp(score1, a.s.enemy_spd)],
                !.to_remove = Append(@, i),
                !.exited = Append(@, i)]

\* Update enemies (src lines 320-339): the loop body for index i, then the
\* rest of the loop.  a.s is the session, a.to_remove the index list.
RECURSIVE UpdateEnemies(_, _, _, _, _)
UpdateEnemies(a, i, crect, lifeA, lifeB) ==
  IF i > Len(a.s.enemies) THEN a
  ELSE
    LET cx == a.s.enemies[i].cx
        ey == a.s.enemies[i].y + a.s.enemy_spd
        a1 == [a EXCEPT !.s = [a.s EXCEPT !.enemies[i].y = ey]]
        a2 == IF colliderect(crect, enemy_rect(cx, ey)) THEN Collide(a1, i, lifeA, lifeB)
              ELSE IF ey > WIN_H * PX THEN Exit(a1, i)
              ELSE a1
    IN  UpdateEnemies(a2, i + 1, crect, lifeA, lifeB)

DeleteAt(seq, i) == SubSeq(seq, 1, i - 1) \o SubSeq(seq, i + 1, Len(seq))

MaxOf(S) == CHOOSE m \in S : \A k \in S : k <= m

\* the removal deleting only the highest marked index
RemoveMarkedOnce(seq, marked) ==
  IF marked = {} THEN seq ELSE DeleteAt(seq, MaxOf(marked))

\* for i in reversed(sorted(set(to_remove))): del enemies[i]
RECURSIVE RemoveMarked(_, _)
RemoveMarked(seq, marked) ==
  IF marked = {} THEN seq
  ELSE LET i == MaxOf(marked)
       IN  RemoveMarked(DeleteAt(seq, i), marked \ {i})

Range(seq) == {seq[k] : k \in 1..Len(seq)}

\* Locals of the latest iteration, kept for inspection: the branch taken,
\* ret2 of the frame read (set by Iteration), hand_x as the game logic read
\* it, the spawn countdown after its decrement,
\* the obstacle list after the spawn step (before) and after the update loop
\* (moved), to_remove, and the indices that took the collision branch
\* (exploded) and the exit branch (exited).
NoLocals ==
  [ branch |-> "none", ret2 |-> TRUE, hand |-> None, cd |-> 0, before |-> << >>,
    moved |-> << >>, to_remove |-> << >>, exploded |-> << >>, exited |-> << >> ]

\* The `if not s['game_over']` branch (src lines 301-342)
Playing(s, frame_w, lane, jitter, lifeA, lifeB) ==
  LET s1 == LaneSelect(s, frame_w)
      s2 == Spawn(s1, lane, jitter)
      a0 == [s |-> s2, to_remove |-> << >>, exploded |-> << >>, exited |-> << >>]
      a  == UpdateEnemies(a0, 1, car_rect(s1), lifeA, lifeB)
  IN  [ s   |-> [a.s EXCEPT !.enemies = RemoveMarked(@, Range(a.to_remove))],
        loc |-> [ branch |-> "playing", ret2 |-> TRUE, hand |-> s.hand_x,
                  cd |-> s.spawn_cd - 1,
                  before |-> s2.enemies, moved |-> a.s.enemies,
                  to_remove |-> a.to_remove, exploded |-> a.exploded,
                  exited |-> a.exited ] ]

\* the game-over branch with the restart test ahead of the cooldown
GameOverRestartFirst(s) ==
  IF s.hand_x # None
  THEN [ s |-> reset_state,
         loc |-> [NoLocals EXCEPT !.branch = "restart", !.hand = s.hand_x] ]
  ELSE IF s.go_timer > 0
  THEN [ s |-> [s EXCEPT !.go_timer = @ - 1],
         loc |-> [NoLocals EXCEPT !.branch = "cooldown", !.hand = s.hand_x] ]
  ELSE [ s |-> s, loc |-> [NoLocals EXCEPT !.branch = "await"] ]

\* the game-over branch with a restart that keeps the obstacle speed
GameOverKeepsSpeed(s) ==
  IF s.go_timer > 0
  THEN [ s |-> [s EXCEPT !.go_timer = @ - 1],
         loc |-> [NoLocals EXCEPT !.branch = "cooldown", !.hand = s.hand_x] ]
  ELSE IF s.hand_x # None
  THEN [ s |-> [reset_state EXCEPT !.enemy_spd = s.enemy_spd],
         loc |-> [NoLocals EXCEPT !.branch = "restart", !.hand = s.hand_x] ]
  ELSE [ s |-> s, loc |-> [NoLocals EXCEPT !.branch = "await"] ]

\* the game-over branch without the restart
GameOverNoRestart(s) ==
  IF s.go_timer > 0
  THEN [ s |-> [s EXCEPT !.go_timer = @ - 1],
         loc |-> [NoLocals EXCEPT !.branch = "cooldown", !.hand = s.hand_x] ]
  ELSE [ s |-> s, loc |-> [NoLocals EXCEPT !.branch = "await"] ]

\* The game-over branch (src lines 372-376)
GameOver(s) ==
  IF s.go_timer > 0
  THEN [ s |-> [s EXCEPT !.go_timer = @ - 1],
         loc |-> [NoLocals EXCEPT !.branch = "cooldown", !.hand = s.hand_x] ]
  ELSE IF s.hand_x # None
  THEN [ s |-> reset_state,
         loc |-> [NoLocals EXCEPT !.branch = "restart", !.hand = s.hand_x] ]
  ELSE [ s |-> s, loc |-> [NoLocals EXCEPT !.branch = "await"] ]

\* Particles (src lines 379-382)
Particles(s) == [s EXCEPT !.particles = StepParticles(@)]

\* the iteration with the particle stage inside the Playing branch
IterationFreezesParticles(s, ct, frame_w, in) ==
  LET s0 == [s EXCEPT !.tick = @ + 1]
      s1 == Scroll(Camera(s0, ct, in.ret2, in.seen))
      r  == IF ~ s1.game_over
            THEN Playing(s1, frame_w, in.lane, in.jitter, in.lifeA, in.lifeB)
            ELSE GameOver(s1)
  IN  [ s |-> IF ~ s1.game_over THEN Particles(r.s) ELSE r.s,
        loc |-> [r.loc EXCEPT !.ret2 = in.ret2] ]

\* One whole iteration of the main loop.  in is the record of this
\* iteration's inputs: ret2/seen (camera), lane/jitter (spawn draws),
\* lifeA/lifeB (particle lifetimes).
Iteration(s, ct, frame_w, in) ==
  LET s0 == [s EXCEPT !.tick = @ + 1]
      s1 == Scroll(Camera(s0, ct, in.ret2, in.seen))
      r  == IF ~ s1.game_over
            THEN Playing(s1, frame_w, in.lane, in.jitter, in.lifeA, in.lifeB)
            ELSE GameOver(s1)
  IN  [ s |-> Particles(r.s), loc |-> [r.loc EXCEPT !.ret2 = in.ret2] ]

\* ---- State --------------------------------------------------------------
\* s: the session dict; cam_tick: the camera-skip counter, held modulo
\* CAM_SKIP (only cam_tick % CAM_SKIP is ever read); w: the frame width;
\* running: the loop flag; loc: the locals of the latest iteration.
VARIABLES s, cam_tick, w, running, loc

vars == << s, cam_tick, w, running, loc >>

\* ---- Bounds and input sets ----------------------------------------------
FrameW == 640
MaxTick == 180

\* what the detector may report on a processed frame: no hand, or landmark 9
\* at mid-frame
HandSeen == { None, Some(FrameW \div 2) }
Lanes == 0 .. LANE_COUNT - 1
Jitters == { -8, 8 }
\* the lifetimes random.randint(25, 50) gives the odd and the even particles
LifetimeDraws == { << 25, 50 >>, << 50, 50 >> }

CameraInputs(ct) ==
  IF ct % CAM_SKIP = 0
  THEN { [ret2 |-> TRUE, seen |-> h] : h \in HandSeen } \cup { [ret2 |-> FALSE, seen |-> None] }
  ELSE { [ret2 |-> TRUE, seen |-> None], [ret2 |-> FALSE, seen |-> None] }

Input(cam, lane, jitter, lifeA, lifeB) ==
  [ ret2 |-> cam.ret2, seen |-> cam.seen, lane |-> lane, jitter |-> jitter,
    lifeA |-> lifeA, lifeB |-> lifeB ]

\* ---- A long scripted run -------------------------------------------------
\* The inputs of the scripted run: no hand is ever seen (the car stays in
\* lane 1); an obstacle is sent down lane 1 while the player has more than
\* one life and no obstacle is in lane 1 yet, down lane 0 otherwise; the
\* spawn jitter is 0.  The run loses two lives early and then scores.
ScriptInput(st) ==
  Input([ret2 |-> TRUE, seen |-> None],
        IF st.lives > 1 /\ \A k \in 1..Len(st.enemies) : st.enemies[k].cx # LANE_X(1)
        THEN 1 ELSE 0,
        0, 25, 25)

\* The session after iterations k+1 .. k+n of the scripted run, from st
\* (the script ends with the session)
RECURSIVE ScriptedRun(_, _, _)
ScriptedRun(st, k, n) ==
  IF st.game_over \/ n = 0 THEN st
  ELSE IF n = 1 THEN Iteration(st, k + 1, FrameW, ScriptInput(st)).s
  ELSE ScriptedRun(ScriptedRun(st, k, n \div 2), k + n \div 2, n - n \div 2)

\* Late in a session: score 207 at speed 17.5 (LateA), score 215 at the
\* speed cap (LateB); one life left in both.
LateA == 10585
LateB == 10818
LateWindowA == 170
LateWindowB == 12
SessionA == ScriptedRun(reset_state, 0, LateA)
SessionB == ScriptedRun(SessionA, LateA, LateB - LateA)

\* ---- A steered scripted run -----------------------------------------------
\* The hand is held at the left edge of the frame and every obstacle is sent
\* down lane 0 with spawn jitter 0: the car slides to lane 0 and is hit three
\* times.  SteerOver is the session after SteerOverAt iterations, in game
\* over with the cooldown nearly run down and the car off the centre lane.
SteerScriptInput == Input([ret2 |-> TRUE, seen |-> Some(0)], 0, 0, 25, 25)

RECURSIVE SteeredRun(_, _, _)
SteeredRun(st, k, n) ==
  IF st.tick < 0 \/ n = 0 THEN st
  ELSE IF n = 1 THEN Iteration(st, k + 1, FrameW, SteerScriptInput).s
  ELSE SteeredRun(SteeredRun(st, k, n \div 2), k + n \div 2, n - n \div 2)

SteerOverAt == 420
SteerOverWindow == 12
SteerOver == SteeredRun(reset_state, 0, SteerOverAt)

TickAllowed ==
  \/ s.tick < MaxTick
  \/ s.tick >= LateA /\ s.tick < LateA + LateWindowA
  \/ s.tick >= LateB /\ s.tick < LateB + LateWindowB
  \/ s.tick >= SteerOverAt /\ s.tick < SteerOverAt + SteerOverWindow

\* A run starts from the fresh session, or continues the scripted run from
\* one of its late sessions.
Init ==
  /\ s \in { reset_state, SessionA, SessionB }
  /\ cam_tick = s.tick % CAM_SKIP
  /\ w = FrameW
  /\ running = TRUE
  /\ loc = NoLocals

\* The iteration's result becomes the next state; a QUIT/ESC event seen in
\* this iteration (quit) ends the loop after the iteration completes.
Commit(r, quit) ==
  /\ s' = r.s
  /\ loc' = r.loc
  /\ cam_tick' = (cam_tick + 1) % CAM_SKIP
  /\ w' = w
  /\ running' = ~ quit

\* An iteration that takes the Playing branch
PlayingTick ==
  /\ running
  /\ TickAllowed
  /\ ~ s.game_over
  /\ \E quit \in BOOLEAN, cam \in CameraInputs(cam_tick + 1) :
     \E lane \in (IF SpawnDue(s.spawn_cd - 1, Len(s.enemies)) THEN Lanes ELSE {0}) :
     \E jitter \in (IF SpawnDue(s.spawn_cd - 1, Len(s.enemies)) THEN Jitters ELSE {0}) :
       LET r0 == Iteration(s, cam_tick + 1, w, Input(cam, lane, jitter, 25, 25))
       IN  IF r0.loc.exploded = << >>
           THEN Commit(r0, quit)
           ELSE \E life \in LifetimeDraws :
                  Commit(Iteration(s, cam_tick + 1, w, Input(cam, lane, jitter, life[1], life[2])), quit)

\* An iteration of the game-over branch with the cooldown still running
CooldownTick ==
  /\ running
  /\ TickAllowed
  /\ s.game_over
  /\ s.go_timer > 0
  /\ \E quit \in BOOLEAN, cam \in CameraInputs(cam_tick + 1) :
       Commit(Iteration(s, cam_tick + 1, w, Input(cam, 0, 0, 25, 25)), quit)

\* An iteration of the game-over branch, cooldown over, with a hand stored
\* after this iteration's camera stage: the session restarts
RestartTick ==
  /\ running
  /\ TickAllowed
  /\ s.game_over
  /\ s.go_timer = 0
  /\ \E quit \in BOOLEAN, cam \in CameraInputs(cam_tick + 1) :
       /\ Camera(s, cam_tick + 1, cam.ret2, cam.seen).hand_x # None
       /\ Commit(Iteration(s, cam_tick + 1, w, Input(cam, 0, 0, 25, 25)), quit)

\* An iteration of the game-over branch, cooldown over, no hand stored
AwaitTick ==
  /\ running
  /\ TickAllowed
  /\ s.game_over
  /\ s.go_timer = 0
  /\ \E quit \in BOOLEAN, cam \in CameraInputs(cam_tick + 1) :
       /\ Camera(s, cam_tick + 1, cam.ret2, cam.seen).hand_x = None
       /\ Commit(Iteration(s, cam_tick + 1, w, Input(cam, 0, 0, 25, 25)), quit)

Next == PlayingTick \/ CooldownTick \/ RestartTick \/ AwaitTick

Spec == Init /\ [][Next]_vars

\* ---- Steering -------------------------------------------------------------
\* The first SteerTicks iterations of a session (no obstacle is spawned
\* before tick 70) with the hand seen at the left or the right edge of the
\* frame on every processed frame, from the fresh session or, through the
\* cooldown and a restart, from SteerOver.
SteerTicks == 26
SteerHands == { Some(0), Some(FrameW - 1) }

SteerCameraInputs(ct) ==
  IF ct % CAM_SKIP = 0
  THEN { [ret2 |-> TRUE, seen |-> h] : h \in SteerHands } \cup { [ret2 |-> FALSE, seen |-> None] }
  ELSE { [ret2 |-> TRUE, seen |-> None] }

InitSteer ==
  /\ s \in { reset_state, SteerOver }
  /\ cam_tick = s.tick % CAM_SKIP
  /\ w = FrameW
  /\ running = TRUE
  /\ loc = NoLocals

\* An iteration that takes the Playing branch, hand at an edge of the frame
SteerTick ==
  /\ running
  /\ ~ s.game_over
  /\ s.tick < SteerTicks
  /\ \E cam \in SteerCameraInputs(cam_tick + 1) :
       Commit(Iteration(s, cam_tick + 1, w, Input(cam, 0, 0, 25, 25)), FALSE)

NextSteer == SteerTick \/ CooldownTick \/ RestartTick \/ AwaitTick

SpecSteer == InitSteer /\ [][NextSteer]_vars

\* ---- The loop kept running ------------------------------------------------
\* The session SessionA (one life left) played on with no QUIT/ESC event.
\* Playing iterations are followed for LiveWindow ticks of the session and
\* for LiveFreshTicks ticks of the session after a restart; game-over
\* iterations until LiveAwaitTicks ticks past the longest cooldown.  In
\* game over the loop runs its next iteration whenever there is one (weak
\* fairness of the game-over iteration); nothing is assumed of the Playing
\* iterations.
LiveWindow == 40
LiveFreshTicks == 4
LiveAwaitTicks == 6

LivePlayingAllowed ==
  \/ s.tick < LiveFreshTicks
  \/ s.tick >= LateA /\ s.tick < LateA + LiveWindow

LiveOverAllowed == s.tick < LateA + LiveWindow + RestartCooldown + LiveAwaitTicks

InitLive ==
  /\ s = SessionA
  /\ cam_tick = s.tick % CAM_SKIP
  /\ w = FrameW
  /\ running = TRUE
  /\ loc = NoLocals

LivePlayingTick ==
  /\ running
  /\ LivePlayingAllowed
  /\ ~ s.game_over
  /\ \E cam \in CameraInputs(cam_tick + 1), lane \in Lanes, jitter \in Jitters,
        life \in LifetimeDraws :
       Commit(Iteration(s, cam_tick + 1, w, Input(cam, lane, jitter, life[1], life[2])), FALSE)

LiveOverTick ==
  /\ running
  /\ LiveOverAllowed
  /\ s.game_over
  /\ \E cam \in CameraInputs(cam_tick + 1) :
       Commit(Iteration(s, cam_tick + 1, w, Input(cam, 0, 0, 25, 25)), FALSE)

NextLive == LivePlayingTick \/ LiveOverTick

SpecLive == InitLive /\ [][NextLive]_vars /\ WF_vars(LiveOverTick)

\* ---- hand_lane on its own ------------------------------------------------
\* The lane-selection step applied once to a hand coordinate and a frame
\* width drawn from small sets around the thirds' boundaries.
MaxHand == 14
MaxWidth == 12
LaneWidths == (1 .. MaxWidth) \cup { FrameW }
LaneHands ==
  { None } \cup
  { Some(x) : x \in (-2 .. MaxHand) \cup
                    { FrameW \div 3, FrameW \div 3 + 1, (2 * FrameW) \div 3,
                      (2 * FrameW) \div 3 + 1, FrameW } }

InitLane ==
  /\ \E h \in LaneHands : s = [reset_state EXCEPT !.hand_x = h]
  /\ cam_tick = 0
  /\ w \in LaneWidths
  /\ running = TRUE
  /\ loc = NoLocals

LaneStep ==
  /\ loc.branch = "none"
  /\ s' = LaneSelect(s, w)
  /\ loc' = [NoLocals EXCEPT !.branch = "lane", !.hand = s.hand_x]
  /\ UNCHANGED << cam_tick, w, running >>

SpecLane == InitLane /\ [][LaneStep]_vars

\* ---- The removal pass on its own ------------------------------------------
\* The removal (src lines 341-342) applied once to an obstacle list of up to
\* MaxList obstacles, any lanes, and any set of marked indices, given as the
\* update loop builds to_remove: in increasing order.
MaxList == 4

RECURSIVE Ascending(_)
Ascending(S) ==
  IF S = {} THEN << >>
  ELSE LET m == MaxOf(S) IN Append(Ascending(S \ {m}), m)

InitRemove ==
  /\ \E n \in 0 .. MaxList : \E lanes \in [1..n -> Lanes] : \E marks \in SUBSET (1..n) :
       /\ s = [reset_state EXCEPT
                 !.enemies = [k \in 1..n |-> [cx |-> LANE_X(lanes[k]),
                                              y  |-> (n - k) * 100 * PX]]]
       /\ loc = [NoLocals EXCEPT !.to_remove = Ascending(marks)]
  /\ cam_tick = 0
  /\ w = FrameW
  /\ running = TRUE

RemoveStep ==
  /\ loc.branch = "none"
  /\ s' = [s EXCEPT !.enemies = RemoveMarked(@, Range(loc.to_remove))]
  /\ loc' = [loc EXCEPT !.branch = "remove", !.moved = s.enemies]
  /\ UNCHANGED << cam_tick, w, running >>

SpecRemove == InitRemove /\ [][RemoveStep]_vars

\* ---- Properties ----------------------------------------------------------
InitialSpeed == 5 * PX
TopSpeed == MAX_SPEED * PX
HalfStep == PX \div 2

\* the obstacle rectangle of e overlaps the player rectangle of session st
Overlaps(st, e) == colliderect(car_rect(st), enemy_rect(e.cx, e.y))

\* number of particles of seq whose remaining lifetime is n
CountLife(seq, n) == Cardinality({ k \in 1..Len(seq) : seq[k].life = n })

\* C1: at the end of every tick lives >= 0 and score >= 0, and lives is 0
\* exactly when game_over is true.
C1_LivesScoreGameOver ==
  /\ s.lives >= 0
  /\ s.score >= 0
  /\ (s.lives = 0) <=> s.game_over

\* the tick that took the last life
C1_Witness ==
  /\ loc.branch = "playing"
  /\ loc.exploded # << >>
  /\ s.lives = 0
  /\ s.game_over

\* C2: between two resets the obstacle speed never decreases from one tick
\* to the next, and it always lies between 5.0 and MAX_SPEED.
C2_SpeedMonotoneBounded ==
  /\ s.enemy_spd >= InitialSpeed /\ s.enemy_spd <= TopSpeed
  /\ [][ /\ s'.enemy_spd >= InitialSpeed /\ s'.enemy_spd <= TopSpeed
         /\ loc'.branch # "restart" => s'.enemy_spd >= s.enemy_spd ]_vars

\* the exit that brings the score to 216 with the speed held at the cap
C2_Witness ==
  /\ loc.branch = "playing"
  /\ loc.exited # << >>
  /\ s.score = 216
  /\ s.enemy_spd = TopSpeed

\* C3: within a session the speed changes only when an exit brings the score
\* to a multiple of 8: each such point adds exactly 0.5 (capped at
\* MAX_SPEED); any other exit, a collision, a spawn or a game-over tick
\* leaves the speed unchanged.
C3_SpeedStepsOnEighthPoint ==
  [][ loc'.branch # "restart" =>
        /\ s'.score = s.score + Len(loc'.exited)
        /\ s'.enemy_spd =
             Min(TopSpeed,
                 s.enemy_spd + HalfStep * (s'.score \div 8 - s.score \div 8)) ]_vars

\* the exit that brings the score to 208 and the speed from 17.5 to 18.0
C3_Witness ==
  /\ loc.branch = "playing"
  /\ loc.exited # << >>
  /\ s.score = 208
  /\ s.enemy_spd = 180

C5_LastLifeSameTick ==
  [][ ( /\ ~ s.game_over
        /\ s.lives = 1
        /\ \E i \in 1..Len(loc'.moved) : Overlaps(s', loc'.moved[i]) )
      => ( s'.lives = 0 /\ s'.game_over /\ s'.go_timer = 2 * FPS ) ]_vars

\* the tick of the last collision, ended in game over with the full cooldown
C5_Witness ==
  /\ loc.branch = "playing"
  /\ \E i \in 1..Len(loc.moved) : Overlaps(s, loc.moved[i])
  /\ s.lives = 0
  /\ s.go_timer = 2 * FPS

\* C6: while game_over is true and go_timer > 0 every tick decrements
\* go_timer by exactly 1 whatever the input, and no reset happens; the
\* cooldown starts at 2*FPS on the tick that sets game_over and a reset
\* happens only from go_timer 0, so never before 2*FPS game-over ticks.
C6_CooldownBeforeRestart ==
  [][ /\ (s.game_over /\ s.go_timer > 0) =>
           /\ s'.go_timer = s.go_timer - 1
           /\ s'.game_over
           /\ loc'.branch = "cooldown"
      /\ (~ s.game_over /\ s'.game_over) => s'.go_timer = 2 * FPS
      /\ loc'.branch = "restart" => (s.game_over /\ s.go_timer = 0) ]_vars

\* a cooldown tick taken with a hand in view
C6_Witness ==
  /\ loc.branch = "cooldown"
  /\ loc.hand # None
  /\ s.game_over
  /\ s.go_timer > 0

FreshSession(st) ==
  /\ st.score = 0
  /\ st.lives = 3
  /\ st.enemies = << >>
  /\ st.particles = << >>
  /\ st.enemy_spd = InitialSpeed
  /\ st.spawn_cd = 70
  /\ st.dash_off = 0
  /\ st.go_timer = 0
  /\ ~ st.game_over
  /\ st.car_x_px = Float(LANE_X(1) - CAR_W \div 2)

\* C7 as stated: a tick that starts with game_over true, go_timer 0 and
\* hand_x not None ends in a fresh Playing session.
C7_AsStated ==
  [][ (s.game_over /\ s.go_timer = 0 /\ s.hand_x # None) => FreshSession(s') ]_vars

\* C7: a tick that starts with game_over true and go_timer 0, and in which
\* hand_x is not None when the restart test reads it (after the tick's
\* camera stage), ends in a fresh Playing session.
C7_RestartIsFresh ==
  [][ (s.game_over /\ s.go_timer = 0 /\ loc'.hand # None) => FreshSession(s') ]_vars

\* the tick that restarted the session
C7_Witness ==
  /\ loc.branch = "restart"
  /\ loc.hand # None
  /\ FreshSession(s)

\* C8: a game-over tick that does not restart leaves the obstacles, score,
\* lives, speed, spawn countdown and player position unchanged and stays in
\* game over, while every particle's lifetime drops by 1 and the expired
\* ones are removed.
C8_GameOverFreezes ==
  [][ (s.game_over /\ loc'.branch # "restart") =>
        /\ s'.game_over
        /\ s'.enemies = s.enemies
        /\ s'.score = s.score
        /\ s'.lives = s.lives
        /\ s'.enemy_spd = s.enemy_spd
        /\ s'.spawn_cd = s.spawn_cd
        /\ s'.car_x_px = s.car_x_px
        /\ s'.car_y = s.car_y
        /\ s'.car_lane = s.car_lane
        /\ (s.go_timer = 0 => s'.go_timer = 0)
        /\ \A k \in 1..Len(s'.particles) : s'.particles[k].life >= 1
        /\ \A n \in { p.life : p \in Range(s.particles) } \cup
                    { p.life + 1 : p \in Range(s'.particles) } :
             n > 1 => CountLife(s'.particles, n - 1) = CountLife(s.particles, n) ]_vars

\* a game-over tick with obstacles on the road and particles still alive
C8_Witness ==
  /\ loc.branch = "cooldown"
  /\ s.enemies # << >>
  /\ s.particles # << >>
  /\ Len(s.particles) < EXPLODE_COUNT

\* C9: every obstacle removed in a tick took exactly one of the two
\* branches: collision (a life lost, 40 particles spawned, no point scored)
\* or exit (a point scored, lives untouched); an obstacle that overlaps the
\* player always takes the collision branch.
C9_CollisionOrExit ==
  [][ loc'.branch = "playing" =>
        LET hit == Range(loc'.exploded)
            out == Range(loc'.exited)
            n   == Len(loc'.moved)
        IN  /\ hit \cap out = {}
            /\ Range(loc'.to_remove) = hit \cup out
            /\ Len(loc'.to_remove) = Cardinality(hit \cup out)
            /\ Len(s'.enemies) = n - Cardinality(hit \cup out)
            /\ \A i \in 1..n : Overlaps(s', loc'.moved[i]) <=> i \in hit
            /\ \A i \in out : loc'.moved[i].y > WIN_H * PX
            /\ s'.lives = s.lives - Cardinality(hit)
            /\ s'.score = s.score + Cardinality(out)
            /\ Len(s'.particles) =
                 Cardinality({ k \in 1..Len(s.particles) : s.particles[k].life > 1 })
                   + EXPLODE_COUNT * Cardinality(hit) ]_vars

\* a tick that resolved an obstacle as a collision
C9_Witness ==
  /\ loc.branch = "playing"
  /\ Len(loc.exploded) = 1
  /\ loc.exited = << >>
  /\ Len(s.particles) >= EXPLODE_COUNT

\* C10: hand_lane returns a lane in {0,1,2}: lane 1 for an absent
\* coordinate; for an integer coordinate x and a positive width wd, lane 0
\* iff x < wd/3, lane 1 iff wd/3 <= x < 2wd/3, lane 2 iff x >= 2wd/3.
C10_HandLaneThirds ==
  loc.branch = "lane" =>
    /\ s.car_lane \in {0, 1, 2}
    /\ loc.hand = None => s.car_lane = 1
    /\ loc.hand # None =>
         LET x == loc.hand[1]
         IN  /\ s.car_lane = 0 <=> 3 * x < w
             /\ s.car_lane = 1 <=> (w <= 3 * x /\ 3 * x < 2 * w)
             /\ s.car_lane = 2 <=> 3 * x >= 2 * w

\* a coordinate exactly on the upper boundary, mapped to lane 2
C10_Witness ==
  /\ loc.branch = "lane"
  /\ loc.hand # None
  /\ 3 * loc.hand[1] = 2 * w
  /\ s.car_lane = 2

\* the largest remaining lifetime in seq (0 for an empty collection)
MaxLifeOf(seq) ==
  IF seq = << >> THEN 0 ELSE MaxOf({ seq[k].life : k \in 1..Len(seq) })

\* C11: a particle starts with a lifetime in [25,50], loses exactly 1 on
\* every tick (Playing and game over alike, the tick that created it
\* included) and is pruned on the tick its lifetime reaches 0, so it is gone
\* at most 50 ticks after its creation; at the end of every tick no particle
\* with lifetime <= 0 remains; and a tick without a collision lowers the
\* largest remaining lifetime by 1, so the collection empties.
C11_ParticlesExpire ==
  /\ [](\A k \in 1..Len(s.particles) :
         /\ s.particles[k].max_life >= 25 /\ s.particles[k].max_life <= 50
         /\ s.particles[k].life >= 1
         /\ s.particles[k].life < s.particles[k].max_life)
  /\ [][ loc'.branch # "restart" =>
           LET kept == SelectSeq(s.particles, LAMBDA p : p.life > 1)
           IN  /\ Len(s'.particles) = Len(kept) + EXPLODE_COUNT * Len(loc'.exploded)
               /\ \A k \in 1..Len(kept) :
                    /\ s'.particles[k].life = kept[k].life - 1
                    /\ s'.particles[k].max_life = kept[k].max_life
               /\ \A k \in Len(kept) + 1 .. Len(s'.particles) :
                    s'.particles[k].life = s'.particles[k].max_life - 1
               /\ (loc'.exploded = << >> /\ s.particles # << >>) =>
                    MaxLifeOf(s'.particles) = MaxLifeOf(s.particles) - 1 ]_vars

\* half of an explosion's particles pruned after 25 ticks, the other half
\* at the end of their 49th tick
C11_Witness ==
  /\ Len(s.particles) = EXPLODE_COUNT \div 2
  /\ \A k \in 1..Len(s.particles) :
       s.particles[k].life = 1 /\ s.particles[k].max_life = 50

\* |a - b| and a * k (k <= 4) for doubles, exact
FDist(a, b) == IF FLess(a, b) THEN FSub(b, a) ELSE FSub(a, b)
FTimes(a, k) == FNorm(a.hi * k, a.lo * k)
FLeq(a, b) == ~ FLess(b, a)

\* the target x of the tick that ended in session st
TargetX(st) == Float(LANE_X(st.car_lane) - CAR_W \div 2)

\* x lies between a and b, ends included
FBetween(x, a, b) ==
  \/ FLeq(a, x) /\ FLeq(x, b)
  \/ FLeq(b, x) /\ FLeq(x, a)

\* C12 as stated: in every Playing tick the new distance to the target is
\* exactly 0.75 times the old one and x does not pass the target; outside
\* the Playing branch x changes only on a reset.
C12_AsStated ==
  [][ /\ loc'.branch = "playing" =>
           /\ FTimes(FDist(s'.car_x_px, TargetX(s')), 4) =
                FTimes(FDist(s.car_x_px, TargetX(s')), 3)
           /\ FBetween(s'.car_x_px, s.car_x_px, TargetX(s'))
      /\ loc'.branch \in {"cooldown", "await"} => s'.car_x_px = s.car_x_px ]_vars

\* C12: in every Playing tick x moves toward the target without passing
\* it (so with a constant target the distance never grows and x stays on
\* its side), and the new distance is 0.75 times the old one up to the
\* rounding of the float arithmetic, less than one unit in the last place
\* of x; outside the Playing branch x changes only on a reset, which puts
\* it back at the lane-1 position.
C12_SlideTowardTarget ==
  [][ /\ loc'.branch = "playing" =>
           LET d4  == FTimes(FDist(s'.car_x_px, TargetX(s')), 4)
               d3  == FTimes(FDist(s.car_x_px, TargetX(s')), 3)
               err == FDist(d4, d3)
           IN  /\ FBetween(s'.car_x_px, s.car_x_px, TargetX(s'))
               /\ FLeq(FDist(s'.car_x_px, TargetX(s')), FDist(s.car_x_px, TargetX(s')))
               /\ err.hi = 0 /\ err.lo < 4 * FUlp(s'.car_x_px)
      /\ loc'.branch \in {"cooldown", "await"} => s'.car_x_px = s.car_x_px
      /\ loc'.branch = "restart" => s'.car_x_px = Float(LANE_X(1) - CAR_W \div 2) ]_vars

\* a slide toward lane 2 that has come to use the last bit of the mantissa
C12_Witness ==
  /\ loc.branch = "playing"
  /\ s.car_lane = 2
  /\ FLess(s.car_x_px, TargetX(s))
  /\ (s.car_x_px.lo \div FUlp(s.car_x_px)) % 2 = 1

\* the scores over which the spawn interval is tabulated
MaxScore == 300

\* C13: a Playing tick spawns an obstacle exactly when the countdown, once
\* decremented, is <= 0 and the obstacle count is below the cap; the
\* countdown is then reset to base + j with j in [-8, 8] and
\* base = max(25, 70 - score div 5), which never grows with the score and
\* is never below 25; a tick without a spawn only decrements the countdown.
C13_SpawnCountdown ==
  [][ loc'.branch = "playing" =>
        LET due  == s.spawn_cd - 1 <= 0 /\ Len(s.enemies) < MAX_ENEMIES
            base == IF 70 - s.score \div 5 > 25 THEN 70 - s.score \div 5 ELSE 25
        IN  /\ due <=> Len(loc'.before) = Len(s.enemies) + 1
            /\ due =>
                 /\ SubSeq(loc'.before, 1, Len(s.enemies)) = s.enemies
                 /\ loc'.before[Len(loc'.before)].y = -ENEMY_H * PX
                 /\ s'.spawn_cd - base \in -8 .. 8
                 /\ base = base_interval(s.score)
                 /\ \A k \in 0 .. MaxScore :
                      /\ base_interval(k) >= 25
                      /\ base_interval(k + 1) <= base_interval(k)
            /\ ~ due =>
                 /\ loc'.before = s.enemies
                 /\ s'.spawn_cd = s.spawn_cd - 1 ]_vars

\* a spawn late in a session, the countdown reset from the shortened base
C13_Witness ==
  /\ loc.branch = "playing"
  /\ loc.cd <= 0
  /\ loc.before # << >>
  /\ loc.before[Len(loc.before)].y = -ENEMY_H * PX
  /\ s.score >= 200
  /\ s.spawn_cd - base_interval(s.score) \in -8 .. 8

\* the obstacles of the tick that ended in st (with locals lc) whose top-y
\* is past WIN_H and that do not overlap the player rectangle of the tick
PastBottom(st, lc) ==
  { i \in 1..Len(lc.moved) :
      lc.moved[i].y > WIN_H * PX /\ ~ Overlaps(st, lc.moved[i]) }

\* C14 as stated: in any tick the score grows by exactly the number of
\* obstacles past the bottom without a collision; with none past the bottom
\* the score is unchanged and nothing is retired as an exit.
C14_AsStated ==
  [][ /\ s'.score = s.score + Cardinality(PastBottom(s', loc'))
      /\ PastBottom(s', loc') = {} =>
           s'.score = s.score /\ loc'.exited = << >> ]_vars

\* C14: in any tick that does not restart the session the score grows by
\* exactly the number of obstacles whose top-y is past WIN_H without a
\* collision in that tick; with none past the bottom the score is unchanged
\* and nothing is retired as an exit; the restarting tick puts the score
\* back to 0.
C14_ScoreCountsExits ==
  [][ /\ loc'.branch # "restart" =>
           /\ s'.score = s.score + Cardinality(PastBottom(s', loc'))
           /\ Range(loc'.exited) = PastBottom(s', loc')
           /\ PastBottom(s', loc') = {} =>
                s'.score = s.score /\ loc'.exited = << >>
      /\ loc'.branch = "restart" => s'.score = 0 ]_vars

\* a tick with one obstacle off the bottom, counted and removed
C14_Witness ==
  /\ loc.branch = "playing"
  /\ Cardinality(PastBottom(s, loc)) = 1
  /\ loc.exploded = << >>
  /\ Len(s.enemies) = Len(loc.moved) - 1
  /\ s.score >= 1

\* C15: after the removal the obstacle collection is exactly the obstacles
\* of the update loop that were not marked, in their original order; in a
\* Playing tick these are the obstacles present after the spawn step, the
\* marked ones being those that took the collision or the exit branch.
C15_RemovalKeepsUnmarked ==
  loc.branch \in {"playing", "remove"} =>
    LET marks == Range(loc.to_remove)
        keep  == { i \in 1..Len(loc.moved) : i \notin marks }
    IN  /\ marks \subseteq 1..Len(loc.moved)
        /\ Len(s.enemies) = Cardinality(keep)
        /\ \A i \in keep :
             s.enemies[Cardinality({ j \in keep : j <= i })] = loc.moved[i]
        /\ loc.branch = "playing" =>
             /\ marks = Range(loc.exploded) \cup Range(loc.exited)
             /\ Len(loc.moved) = Len(loc.before)
             /\ \A i \in 1..Len(loc.moved) : loc.moved[i].cx = loc.before[i].cx

\* the first and the third of four obstacles marked, the second and the
\* fourth left in order
C15_Witness ==
  /\ loc.branch = "remove"
  /\ Len(loc.moved) = 4
  /\ loc.to_remove = << 1, 3 >>
  /\ s.enemies = << loc.moved[2], loc.moved[4] >>

\* C16 as stated: in a Playing tick every obstacle advances its top-y by the
\* same amount, the speed in effect before the tick's retirements; a speed
\* step caused by a retirement first moves obstacles in the next tick.
C16_AsStated ==
  [][ loc'.branch = "playing" =>
        /\ Len(loc'.moved) = Len(loc'.before)
        /\ \A i \in 1..Len(loc'.moved) :
             loc'.moved[i].y = loc'.before[i].y + s.enemy_spd ]_vars

\* C17: hand_x is recomputed only on a tick whose camera counter is a
\* multiple of CAM_SKIP and whose frame read succeeded, and is cleared by a
\* reset; on every other tick it is unchanged.  The simulation step runs on
\* every tick: the tick counter advances by 1, and a Playing tick reads the
\* stored signal, selects the lane from it, counts the spawn countdown and
\* advances every obstacle.
C17_SampledInputEveryTick ==
  [][ LET sampled == cam_tick' = 0 /\ loc'.ret2
          restart == loc'.branch = "restart"
      IN  /\ s'.hand_x # s.hand_x => (sampled \/ restart)
          /\ (~ sampled /\ ~ restart) => s'.hand_x = s.hand_x
          /\ restart => s'.hand_x = None /\ s'.tick = 0
          /\ ~ restart => s'.tick = s.tick + 1
          /\ ~ s.game_over =>
               /\ loc'.branch = "playing"
               /\ loc'.hand = s'.hand_x
               /\ ~ sampled => loc'.hand = s.hand_x
               /\ s'.car_lane = hand_lane(loc'.hand, w)
               /\ loc'.cd = s.spawn_cd - 1
               /\ Len(loc'.moved) = Len(loc'.before)
               /\ \A i \in 1..Len(loc'.moved) : loc'.moved[i].y > loc'.before[i].y ]_vars

\* a Playing tick on an even camera count whose frame read failed: the hand
\* stored earlier is kept and used
C17_Witness ==
  /\ loc.branch = "playing"
  /\ cam_tick = 0
  /\ ~ loc.ret2
  /\ loc.hand # None
  /\ s.hand_x = loc.hand
  /\ loc.moved # << >>

\* the speed a session has at a given score
SpeedAt(score) == Min(TopSpeed, InitialSpeed + HalfStep * (score \div 8))

\* two obstacles can overlap the player in one tick only if their top-y
\* differ by less than this
OverlapSpan == 2 * ENEMY_H * PX

\* C18: with lane centres 186/399/612, car and obstacle 52x84, a spawn
\* countdown of at least 17 ticks and a speed in [5,18], at most one
\* obstacle overlaps the player rectangle in a tick and lives drops by at
\* most 1 per tick: consecutive obstacles are never closer than two
\* obstacle heights, as the speed at any score times the shortest countdown
\* at that score is more than that.
C18_OneCollisionPerTick ==
  /\ << LANE_X(0), LANE_X(1), LANE_X(2) >> = << 186, 399, 612 >>
  /\ << CAR_W, CAR_H, ENEMY_W, ENEMY_H >> = << 52, 84, 52, 84 >>
  /\ [](/\ s.enemy_spd = SpeedAt(s.score)
        /\ s.enemy_spd >= InitialSpeed /\ s.enemy_spd <= TopSpeed
        /\ \A i, j \in 1..Len(s.enemies) :
             i < j => s.enemies[i].y - s.enemies[j].y >= OverlapSpan)
  /\ [][ /\ s'.lives >= s.lives - 1 \/ loc'.branch = "restart"
         /\ loc'.branch = "playing" =>
              /\ Cardinality({ i \in 1..Len(loc'.moved) : Overlaps(s', loc'.moved[i]) }) <= 1
              /\ Len(loc'.exploded) <= 1
              /\ s'.lives = s.lives - Len(loc'.exploded)
              /\ Len(loc'.before) > Len(s.enemies) =>
                   /\ s'.spawn_cd >= 17
                   /\ \A k \in 0 .. MaxScore :
                        SpeedAt(k) * (base_interval(k) - 8) >= OverlapSpan ]_vars

\* a collision with a second obstacle on the road: one overlap, one life
C18_Witness ==
  /\ loc.branch = "playing"
  /\ Len(loc.moved) >= 2
  /\ Cardinality({ i \in 1..Len(loc.moved) : Overlaps(s, loc.moved[i]) }) = 1
  /\ Len(loc.exploded) = 1
  /\ s.lives = 2

LaneCentres == { LANE_X(i) : i \in Lanes }

\* C19: at the end of a Playing tick no obstacle left in the collection
\* overlaps the player rectangle of that tick and none has top-y above
\* WIN_H; every obstacle's centre-x is a lane centre and stays what it was
\* when the obstacle was spawned.
C19_SurvivorsOnRoad ==
  /\ [](\A k \in 1..Len(s.enemies) : s.enemies[k].cx \in LaneCentres)
  /\ [](loc.branch = "playing" =>
         \A k \in 1..Len(s.enemies) :
           /\ ~ Overlaps(s, s.enemies[k])
           /\ s.enemies[k].y <= WIN_H * PX)
  /\ [][ /\ loc'.branch = "playing" =>
              /\ Len(loc'.moved) >= Len(s.enemies)
              /\ \A i \in 1..Len(s.enemies) : loc'.moved[i].cx = s.enemies[i].cx
              /\ \A k \in 1..Len(s'.enemies) :
                   \E i \in 1..Len(loc'.moved) :
                     i \notin Range(loc'.to_remove) /\ s'.enemies[k] = loc'.moved[i]
         /\ loc'.branch \in {"cooldown", "await"} => s'.enemies = s.enemies ]_vars

\* a tick that retired an obstacle off the bottom and left a younger one on
\* the road
C19_Witness ==
  /\ loc.branch = "playing"
  /\ loc.exited # << >>
  /\ s.enemies # << >>
  /\ \A k \in 1..Len(s.enemies) :
       s.enemies[k].y <= WIN_H * PX /\ s.enemies[k].cx \in LaneCentres

\* the signal is stored at the end of the tick whenever the session is in
\* game over
HandPresent == s.game_over => s.hand_x # None

\* C20: with the loop kept running, if from some point on the input
\* signal is present on every tick, a session in game over eventually
\* returns to Playing with a fresh state; the cooldown starts at 2*FPS,
\* drops by exactly 1 on every game-over tick until it is 0 (so it is 0
\* after exactly 2*FPS game-over ticks) and never increases during game
\* over.
C20_RestartLiveness ==
  /\ (<>[]HandPresent) => (s.game_over ~> FreshSession(s))
  /\ [][ /\ (~ s.game_over /\ s'.game_over) => s'.go_timer = 2 * FPS
         /\ (s.game_over /\ s.go_timer > 0) =>
              s'.game_over /\ s'.go_timer = s.go_timer - 1
         /\ (s.game_over /\ s'.game_over) => s'.go_timer <= s.go_timer
         /\ (s.game_over /\ ~ s'.game_over) => s.go_timer = 0 /\ FreshSession(s') ]_vars

\* the restart, on the first tick after the cooldown with a hand in view
C20_Witness ==
  /\ loc.branch = "restart"
  /\ loc.hand # None
  /\ s.tick = 0
  /\ ~ s.game_over
  /\ s.lives = 3

====
